---- MODULE Spec2Model ----
(***************************************************************************)
(* Model of the label/template backend (src/src/index.ts): the folder and  *)
(* template collections, the request handlers that read and write them,    *)
(* and the pure helpers (placeholder scan, field extraction, row           *)
(* substitution, merge naming).                                            *)
(*                                                                         *)
(* Strings are sequences of one-character strings.  Document ids are       *)
(* positive integers handed out in creation order; 0 stands for null.      *)
(***************************************************************************)
EXTENDS Integers, Sequences, FiniteSets, TLC

VARIABLES folders, nextFolderId, templates, nextTemplateId,
          del, post, rfr, mrg, pure

vars == <<folders, nextFolderId, templates, nextTemplateId,
          del, post, rfr, mrg, pure>>

\* ------------------------------------------------------------------ bounds
\* folders ever created
MaxFolders == 3
\* templates ever created by POST /api/templates; a merge may create MaxRows more
MaxTemplates == 2
\* cap on the id list of a traversal that does not end
MaxIds == 6
\* rows of one merge request
MaxRows == 2
\* items of an item list given to the pure helpers
MaxItems == 2
\* text tokens over all items of such an item list
MaxTokens == 3

\* ------------------------------------------------------------------ values
Null == 0
Undefined == <<"undefined">>

FolderIds == 1..MaxFolders
TemplateIds == 1..(MaxTemplates + MaxRows)

\* the characters of [A-Za-z0-9_] that the model's strings use
NameChars == {"a", "b", "e", "m", "n", "v", "w", "_", "B"}
WhiteSpace == {" "}

Str_a == <<"a">>
Str_b == <<"b">>
Str_name == <<"n", "a", "m", "e">>
Str___name == <<"_", "_", "n", "a", "m", "e">>

RECURSIVE Concat(_)
Concat(ss) == IF ss = <<>> THEN <<>> ELSE Head(ss) \o Concat(Tail(ss))

Range(f) == {f[i] : i \in DOMAIN f}

\* ------------------------------------------------------- placeholderRegex
\* index after the run of name characters that starts at j
RECURSIVE NameRunEnd(_, _)
NameRunEnd(s, j) ==
  IF j <= Len(s) /\ s[j] \in NameChars THEN NameRunEnd(s, j + 1) ELSE j

\* /\{\{([A-Za-z0-9_]+)\}\}/ tried at index i: the index after the match, 0 if none
MatchAt(s, i) ==
  IF i + 1 <= Len(s) /\ s[i] = "{" /\ s[i + 1] = "{"
  THEN LET e == NameRunEnd(s, i + 2)
       IN IF e > i + 2 /\ e + 1 <= Len(s) /\ s[e] = "}" /\ s[e + 1] = "}"
          THEN e + 2
          ELSE 0
  ELSE 0

\* capture group 1 of a match at i that ends before e
MatchName(s, i, e) == SubSeq(s, i + 2, e - 3)

\* content.matchAll(regex): the names of the successive matches from index i on
RECURSIVE MatchAllFrom(_, _)
MatchAllFrom(s, i) ==
  IF i > Len(s) THEN <<>>
  ELSE LET e == MatchAt(s, i)
       IN IF e # 0
          THEN <<MatchName(s, i, e)>> \o MatchAllFrom(s, e)
          ELSE MatchAllFrom(s, i + 1)

matchAll(s) == MatchAllFrom(s, 1)

\* ------------------------------------------------- extractFieldsFromItems
MapHas(map, name) == \E k \in DOMAIN map : map[k].name = name

\* AddMatches without the map.has test
RECURSIVE AddMatchesNoHas(_, _, _)
AddMatchesNoHas(map, names, itemId) ==
  IF names = <<>> THEN map
  ELSE AddMatchesNoHas(Append(map, [name |-> Head(names), label |-> Head(names),
                                    targetItemId |-> itemId]),
                       Tail(names), itemId)

\* the for-of loop over one item's matches: map.set on the first sight of a name
RECURSIVE AddMatches(_, _, _)
AddMatches(map, names, itemId) ==
  IF names = <<>> THEN map
  ELSE LET name == Head(names)
       IN AddMatches(IF MapHas(map, name) THEN map
                     ELSE Append(map, [name |-> name, label |-> name,
                                       targetItemId |-> itemId]),
                     Tail(names), itemId)

\* items.forEach over the items still to visit
RECURSIVE ExtractInto(_, _)
ExtractInto(map, items) ==
  IF items = <<>> THEN map
  ELSE LET item == Head(items)
       IN ExtractInto(IF item.type # "TEXT" \/ item.content = <<>> THEN map
                      ELSE AddMatches(map, matchAll(item.content), item.id),
                      Tail(items))

extractFieldsFromItems(items) == ExtractInto(<<>>, items)

\* ---------------------------------------------------- replacePlaceholders
RowGet(row, key) == IF key \in DOMAIN row THEN row[key] ELSE Undefined

\* Replacement without the typeof test: a missing value is written out
ReplacementUnchecked(row, key) ==
  LET replacement == RowGet(row, key)
  IN IF replacement # Undefined THEN replacement
     ELSE <<"u", "n", "d", "e", "f", "i", "n", "e", "d">>

\* the replacer callback: row[key] when it is a string, "" otherwise
Replacement(row, key) ==
  LET replacement == RowGet(row, key)
  IN IF replacement # Undefined THEN replacement ELSE <<>>

RECURSIVE ReplaceFrom(_, _, _)
ReplaceFrom(s, i, row) ==
  IF i > Len(s) THEN <<>>
  ELSE LET e == MatchAt(s, i)
       IN IF e # 0
          THEN Replacement(row, MatchName(s, i, e)) \o ReplaceFrom(s, e, row)
          ELSE <<s[i]>> \o ReplaceFrom(s, i + 1, row)

replacePlaceholders(value, row) ==
  IF value = <<>> THEN value ELSE ReplaceFrom(value, 1, row)

\* ----------------------------------------------------- cloneItemsWithData
cloneItem(item, row) ==
  IF item.type # "TEXT" THEN item
  ELSE [item EXCEPT !.content = replacePlaceholders(item.content, row)]

cloneItemsWithData(items, row) ==
  [k \in 1..Len(items) |-> cloneItem(items[k], row)]

\* ------------------------------------------------------------ merge naming
Truthy(v) == v # Undefined /\ v # <<>>

RECURSIVE TrimStart(_)
TrimStart(s) ==
  IF s # <<>> /\ Head(s) \in WhiteSpace THEN TrimStart(Tail(s)) ELSE s

RECURSIVE TrimEnd(_)
TrimEnd(s) ==
  IF s # <<>> /\ s[Len(s)] \in WhiteSpace
  THEN TrimEnd(SubSeq(s, 1, Len(s) - 1)) ELSE s

trim(s) == TrimEnd(TrimStart(s))

Digits == <<"0", "1", "2", "3", "4", "5", "6", "7", "8", "9">>

RECURSIVE NumberToString(_)
NumberToString(n) ==
  IF n < 10 THEN <<Digits[n + 1]>>
  ELSE NumberToString(n \div 10) \o <<Digits[(n % 10) + 1]>>

\* row.__name || row.name || (effectiveFields[0]?.name ? row[...] : undefined)
preferredNameField(row, effectiveFields) ==
  IF Truthy(RowGet(row, Str___name)) THEN RowGet(row, Str___name)
  ELSE IF Truthy(RowGet(row, Str_name)) THEN RowGet(row, Str_name)
  ELSE IF effectiveFields # <<>> /\ Truthy(effectiveFields[1].name)
       THEN RowGet(row, effectiveFields[1].name)
       ELSE Undefined

\* index is the loop's 0-based index
generatedName(row, effectiveFields, templateName, index) ==
  LET p == preferredNameField(row, effectiveFields)
  IN IF Truthy(p) /\ Len(trim(p)) > 0
     THEN trim(p)
     ELSE templateName \o <<" ", "#">> \o NumberToString(index + 1)

\* ------------------------------------------------- inputs of the helpers
ItemTypes == {"TEXT", "QR", "IMAGE"}

\* pieces of text content: placeholders, an unterminated marker, stray braces
Tokens == { <<"{", "{", "a", "}", "}">>, <<"{", "{", "b", "}", "}">>,
            <<"{", "{", "a">>, <<"}", "}">>, <<"{">> }

\* the strings made of exactly c tokens
RECURSIVE TokenStrings(_)
TokenStrings(c) ==
  IF c = 0 THEN {<<>>}
  ELSE {t \o s : t \in Tokens, s \in TokenStrings(c - 1)}

\* a CanvasItemPayload at list position pos
MkItem(pos, type, content) ==
  [id |-> <<"i", Digits[pos + 1]>>, type |-> type, content |-> content,
   x |-> pos, y |-> pos + 1, width |-> 10, height |-> 5]

\* the payload of a QR or IMAGE item: opaque, and it happens to hold braces
OpaqueContent == <<"{", "{", "a", "}", "}">>

\* the items for position pos whose content is made of exactly c tokens; the
\* payload of an item that is not TEXT counts as one token
ItemsAt(pos, c) ==
  {MkItem(pos, "TEXT", s) : s \in TokenStrings(c)}
    \cup (IF c = 1
          THEN {MkItem(pos, ty, OpaqueContent) : ty \in ItemTypes \ {"TEXT"}}
          ELSE {})

\* the item lists of at most n items from position pos on, of at most k tokens
RECURSIVE ItemListsFrom(_, _, _)
ItemListsFrom(pos, n, k) ==
  IF n = 0 THEN {<<>>}
  ELSE {<<>>} \cup
       UNION { LET rests == ItemListsFrom(pos + 1, n - 1, k - c)
               IN {<<it>> \o rest : it \in ItemsAt(pos, c), rest \in rests}
               : c \in 0..k }

PureItemLists == ItemListsFrom(1, MaxItems, MaxTokens)

NoRow == [key \in {} |-> <<>>]

\* the rows a key set and a value set allow: every key absent or given a value
RowsOver(keys, values) ==
  UNION { [ks -> values] : ks \in SUBSET keys }

CloneRows == { NoRow,
               [key \in {Str_a} |-> <<"v">>],
               [key \in {Str_a, Str_b} |->
                  IF key = Str_a THEN <<"{", "{", "b", "}", "}">> ELSE <<"v">>] }

NameValues == { <<>>, <<" ">>, <<" ", "v", " ">> }
NameRows == RowsOver({Str___name, Str_name, Str_a}, NameValues)

Field(name, itemId) == [name |-> name, label |-> name, targetItemId |-> itemId]

PureInput(kind, items, row, fields, index) ==
  [kind |-> kind, items |-> items, row |-> row, fields |-> fields,
   templateName |-> <<"B">>, index |-> index, done |-> FALSE, out |-> <<>>]

PureInputs ==
  {PureInput("extract", items, NoRow, <<>>, 0) : items \in PureItemLists}
    \cup {PureInput("clone", items, row, <<>>, 0) :
            items \in PureItemLists, row \in CloneRows}
    \cup {PureInput("name", <<>>, row, fields, index) :
            row \in NameRows,
            fields \in {<<>>, <<Field(Str_a, <<"i", "1">>)>>},
            index \in 0..(MaxRows - 1)}

NoPure == PureInput("none", <<>>, NoRow, <<>>, 0)

\* ------------------------------------------------------------ the store
\* Collections are functions from the ids of the stored documents.  A find
\* answers in insertion order, which is id order.
Restrict(f, S) == [x \in S |-> f[x]]

Put(f, x, v) == [y \in DOMAIN f \cup {x} |-> IF y = x THEN v ELSE f[y]]

Min(S) == CHOOSE x \in S : \A y \in S : x <= y

\* the members of a finite set of integers in ascending order
RECURSIVE Ascending(_)
Ascending(S) == IF S = {} THEN <<>> ELSE <<Min(S)>> \o Ascending(S \ {Min(S)})

NoDocs == [x \in {} |-> 0]

\* FolderModel.find({ parentId: current }).select("_id")
ChildrenOf(current) ==
  Ascending({f \in DOMAIN folders : folders[f].parentId = current})

\* TemplatesIn with the root id in place of the id list
TemplatesInRoot(ids) ==
  Ascending({t \in DOMAIN templates : templates[t].folderId = ids[1]})

\* TemplateModel.find({ folderId: { $in: ids } }).select("_id")
TemplatesIn(ids) ==
  Ascending({t \in DOMAIN templates : templates[t].folderId \in Range(ids)})

\* ------------------------------------------------------- request records
IdleDel == [pc |-> "idle", id |-> Null, ids |-> <<>>, queue |-> <<>>,
            templateIds |-> <<>>, status |-> 0]
IdlePost == [pc |-> "idle", payload |-> <<>>, existing |-> Null,
             fields |-> <<>>, status |-> 0, id |-> Null]
IdleRfr == [pc |-> "idle", id |-> Null, fields |-> <<>>, status |-> 0]
IdleMrg == [pc |-> "idle", templateId |-> Null, folderId |-> Null,
            rows |-> <<>>, template |-> <<>>,
            effectiveFields |-> <<>>, index |-> 0, createdTemplates |-> <<>>,
            status |-> 0]

Ended(r) == r.pc \in {"idle", "done", "failed"}

DelInFlight == ~Ended(del)

StoreInit ==
  /\ folders = NoDocs
  /\ nextFolderId = 1
  /\ templates = NoDocs
  /\ nextTemplateId = 1
  /\ del = IdleDel
  /\ post = IdlePost
  /\ rfr = IdleRfr
  /\ mrg = IdleMrg

\* ------------------------------------------------- POST /api/folders
CreateFolder(parentId) ==
  /\ nextFolderId <= MaxFolders
  /\ folders' = Put(folders, nextFolderId, [parentId |-> parentId])
  /\ nextFolderId' = nextFolderId + 1
  /\ UNCHANGED <<templates, nextTemplateId, del, post, rfr, mrg, pure>>

\* ------------------------------------------- DELETE /api/folders/:id
\* findDescendantFolderIds up to its first find
DeleteFolderStart(id) ==
  /\ Ended(del)
  /\ del' = [IdleDel EXCEPT !.pc = "bfs", !.id = id, !.ids = <<id>>,
                            !.queue = <<id>>]
  /\ UNCHANGED <<folders, nextFolderId, templates, nextTemplateId,
                 post, rfr, mrg, pure>>

\* bfsTurn without ids.push
bfsTurnNoIdsPush(d) ==
  LET queue == Tail(d.queue) \o ChildrenOf(Head(d.queue))
  IN [d EXCEPT !.queue = queue,
               !.pc = IF queue = <<>> THEN "deleteFolders" ELSE "bfs"]

\* bfsTurn without queue.push
bfsTurnNoQueuePush(d) ==
  [d EXCEPT !.ids = d.ids \o ChildrenOf(Head(d.queue)),
            !.queue = Tail(d.queue),
            !.pc = IF Tail(d.queue) = <<>> THEN "deleteFolders" ELSE "bfs"]

\* one turn of the while loop: shift, the find, the pushes
bfsTurn(d) ==
  LET current == Head(d.queue)
      children == ChildrenOf(current)
      queue == Tail(d.queue) \o children
  IN [d EXCEPT !.ids = d.ids \o children,
               !.queue = queue,
               !.pc = IF queue = <<>> THEN "deleteFolders" ELSE "bfs"]

DeleteFolderBfs ==
  /\ del.pc = "bfs"
  /\ Len(del.ids) + Len(ChildrenOf(Head(del.queue))) <= MaxIds
  /\ del' = bfsTurn(del)
  /\ UNCHANGED <<folders, nextFolderId, templates, nextTemplateId,
                 post, rfr, mrg, pure>>

\* FolderModel.deleteMany({ _id: { $in: idsToDelete } })
foldersAfterDelete(idsToDelete) ==
  Restrict(folders, DOMAIN folders \ Range(idsToDelete))

DeleteFolderDocs ==
  /\ del.pc = "deleteFolders"
  /\ folders' = foldersAfterDelete(del.ids)
  /\ del' = [del EXCEPT !.pc = "findTemplates"]
  /\ UNCHANGED <<nextFolderId, templates, nextTemplateId,
                 post, rfr, mrg, pure>>

\* the template find; with no template found the handler responds at once
DeleteFolderFindTemplates ==
  /\ del.pc = "findTemplates"
  /\ LET templateIds == TemplatesIn(del.ids)
     IN del' = IF templateIds = <<>>
               THEN [del EXCEPT !.pc = "done", !.status = 200]
               ELSE [del EXCEPT !.pc = "deleteTemplates",
                                !.templateIds = templateIds]
  /\ UNCHANGED <<folders, nextFolderId, templates, nextTemplateId,
                 post, rfr, mrg, pure>>

\* TemplateModel.deleteMany({ _id: { $in: templateIds } }) and the response
DeleteFolderTemplates ==
  /\ del.pc = "deleteTemplates"
  /\ templates' = Restrict(templates, DOMAIN templates \ Range(del.templateIds))
  /\ del' = [del EXCEPT !.pc = "done", !.status = 200]
  /\ UNCHANGED <<folders, nextFolderId, nextTemplateId,
                 post, rfr, mrg, pure>>

\* a storage call of the handler throws: the catch block answers 500
DeleteFolderFail ==
  /\ DelInFlight
  /\ del' = [IdleDel EXCEPT !.pc = "failed", !.id = del.id, !.status = 500]
  /\ UNCHANGED <<folders, nextFolderId, templates, nextTemplateId,
                 post, rfr, mrg, pure>>

\* ------------------------------------------------ POST /api/templates
\* TemplateModel.findOne({ name, folderId })
FindOneByNameAndFolder(name, folderId) ==
  LET found == {t \in DOMAIN templates :
                  templates[t].name = name /\ templates[t].folderId = folderId}
  IN IF found = {} THEN Null ELSE Min(found)

\* nextFields without the fallback to the stored list
nextFieldsExtracted(extractedFields, existingFields) == extractedFields

\* the field list of an upsert or an update: the extracted one unless it is empty
nextFields(extractedFields, existingFields) ==
  IF extractedFields # <<>> THEN extractedFields ELSE existingFields

\* validation, extraction and the findOne
PostTemplateFind(payload) ==
  /\ Ended(post)
  /\ LET extractedFields == extractFieldsFromItems(payload.items)
         existing == FindOneByNameAndFolder(payload.name, payload.folderId)
     IN post' = IF existing # Null
                THEN [IdlePost EXCEPT !.pc = "save", !.payload = payload,
                         !.existing = existing,
                         !.fields = nextFields(extractedFields,
                                               templates[existing].fields)]
                ELSE [IdlePost EXCEPT !.pc = "create", !.payload = payload,
                         !.fields = extractedFields]
  /\ UNCHANGED <<folders, nextFolderId, templates, nextTemplateId,
                 del, rfr, mrg, pure>>

\* existing.set({ width, height, items, fields }); existing.save(): the save of
\* a document that is gone throws
PostTemplateSave ==
  /\ post.pc = "save"
  /\ IF post.existing \in DOMAIN templates
     THEN /\ templates' = [templates EXCEPT ![post.existing] =
                             [@ EXCEPT !.width = post.payload.width,
                                       !.height = post.payload.height,
                                       !.items = post.payload.items,
                                       !.fields = post.fields]]
          /\ post' = [post EXCEPT !.pc = "done", !.status = 200,
                                  !.id = post.existing]
             ELSE /\ post' = [post EXCEPT !.pc = "failed", !.status = 500]
          /\ UNCHANGED templates
  /\ UNCHANGED <<folders, nextFolderId, nextTemplateId, del, rfr, mrg, pure>>

\* TemplateModel.create({ ..., fields: extractedFields, role: "draft" })
PostTemplateCreate ==
  /\ post.pc = "create"
  /\ nextTemplateId <= MaxTemplates
  /\ templates' = Put(templates, nextTemplateId,
                      [name |-> post.payload.name,
                       folderId |-> post.payload.folderId,
                       width |-> post.payload.width,
                       height |-> post.payload.height,
                       items |-> post.payload.items,
                       fields |-> post.fields,
                       role |-> "draft"])
  /\ nextTemplateId' = nextTemplateId + 1
  /\ post' = [post EXCEPT !.pc = "done", !.status = 201, !.id = nextTemplateId]
  /\ UNCHANGED <<folders, nextFolderId, del, rfr, mrg, pure>>

\* ---------------------------------------------- PUT /api/templates/:id
\* findByIdAndUpdate: one storage call; an unknown id answers 404 and writes nothing
updatedTemplate(doc, payload) ==
  [doc EXCEPT !.name = payload.name,
              !.folderId = payload.folderId,
              !.width = payload.width,
              !.height = payload.height,
              !.items = payload.items,
              !.fields = nextFields(extractFieldsFromItems(payload.items), @)]

PutTemplate(id, payload) ==
  /\ id \in DOMAIN templates
  /\ templates' = [templates EXCEPT ![id] = updatedTemplate(@, payload)]
  /\ UNCHANGED <<folders, nextFolderId, nextTemplateId, del, post, rfr, mrg, pure>>

\* ------------------------------------------- DELETE /api/templates/:id
\* findByIdAndDelete; an unknown id deletes nothing and answers 204 all the same
DeleteTemplate(id) ==
  /\ id \in DOMAIN templates
  /\ templates' = Restrict(templates, DOMAIN templates \ {id})
  /\ UNCHANGED <<folders, nextFolderId, nextTemplateId, del, post, rfr, mrg, pure>>

\* ---------------------------------- POST /api/templates/:id/fields/refresh
RefreshFind(id) ==
  /\ Ended(rfr)
  /\ rfr' = IF id \in DOMAIN templates
            THEN [IdleRfr EXCEPT !.pc = "save", !.id = id,
                     !.fields = extractFieldsFromItems(templates[id].items)]
            ELSE [IdleRfr EXCEPT !.pc = "done", !.id = id, !.status = 404]
  /\ UNCHANGED <<folders, nextFolderId, templates, nextTemplateId,
                 del, post, mrg, pure>>

\* template.set({ fields }); template.save()
RefreshSave ==
  /\ rfr.pc = "save"
  /\ IF rfr.id \in DOMAIN templates
     THEN /\ templates' = [templates EXCEPT ![rfr.id].fields = rfr.fields]
          /\ rfr' = [rfr EXCEPT !.pc = "done", !.status = 200]
             ELSE /\ rfr' = [rfr EXCEPT !.pc = "failed", !.status = 500]
          /\ UNCHANGED templates
  /\ UNCHANGED <<folders, nextFolderId, nextTemplateId, del, post, mrg, pure>>

\* ------------------------------------------------------ POST /api/merge
\* the template.fields-or-extraction choice made once per request
effectiveFieldsOf(template) ==
  IF template.fields # <<>> THEN template.fields
  ELSE extractFieldsFromItems(template.items)

\* folderId ?? template.folderId ?? null
targetFolderId(folderId, template) ==
  IF folderId # Null THEN folderId ELSE template.folderId

\* mergedTemplate reading the rows from the last one backwards
mergedTemplateBackwards(m) ==
  LET row == m.rows[Len(m.rows) - m.index]
  IN [name |-> generatedName(row, m.effectiveFields, m.template.name, m.index),
      folderId |-> targetFolderId(m.folderId, m.template),
      width |-> m.template.width,
      height |-> m.template.height,
      items |-> cloneItemsWithData(m.template.items, row),
      fields |-> m.effectiveFields,
      role |-> "filled"]

\* the document the loop creates for rows[index]
mergedTemplate(m) ==
  LET row == m.rows[m.index + 1]
  IN [name |-> generatedName(row, m.effectiveFields, m.template.name, m.index),
      folderId |-> targetFolderId(m.folderId, m.template),
      width |-> m.template.width,
      height |-> m.template.height,
      items |-> cloneItemsWithData(m.template.items, row),
      fields |-> m.effectiveFields,
      role |-> "filled"]

\* mapTemplate(newTemplate)
mapTemplate(id, doc) ==
  [id |-> id, name |-> doc.name, folderId |-> doc.folderId,
   width |-> doc.width, height |-> doc.height, items |-> doc.items,
   role |-> doc.role, fields |-> doc.fields]

\* the findById and what precedes the loop
MergeFind(templateId, folderId, rows) ==
  /\ Ended(mrg)
  /\ mrg' = IF templateId \in DOMAIN templates
            THEN [IdleMrg EXCEPT !.pc = "loop", !.templateId = templateId,
                     !.folderId = folderId,
                     !.rows = rows, !.template = templates[templateId],
                     !.effectiveFields = effectiveFieldsOf(templates[templateId])]
            ELSE [IdleMrg EXCEPT !.pc = "done", !.templateId = templateId,
                     !.folderId = folderId, !.rows = rows, !.status = 404]
  /\ UNCHANGED <<folders, nextFolderId, templates, nextTemplateId,
                 del, post, rfr, pure>>

\* one turn of the for loop: TemplateModel.create and the push; the turn that
\* leaves the loop answers 201
MergeCreate ==
  /\ mrg.pc = "loop"
  /\ nextTemplateId \in TemplateIds
  /\ LET doc == mergedTemplate(mrg)
         index == mrg.index + 1
     IN /\ templates' = Put(templates, nextTemplateId, doc)
        /\ mrg' = [mrg EXCEPT
                     !.createdTemplates = Append(@, mapTemplate(nextTemplateId, doc)),
                     !.index = index,
                     !.pc = IF index < Len(mrg.rows) THEN "loop" ELSE "done",
                     !.status = IF index < Len(mrg.rows) THEN 0 ELSE 201]
  /\ nextTemplateId' = nextTemplateId + 1
  /\ UNCHANGED <<folders, nextFolderId, del, post, rfr, pure>>

\* TemplateModel.create throws: the catch block answers 500
MergeFail ==
  /\ mrg.pc = "loop"
  /\ mrg' = [mrg EXCEPT !.pc = "failed", !.status = 500]
  /\ UNCHANGED <<folders, nextFolderId, templates, nextTemplateId,
                 del, post, rfr, pure>>

\* ------------------------------------------------- the helpers, applied
ApplyExtract ==
  /\ pure.kind = "extract" /\ ~pure.done
  /\ pure' = [pure EXCEPT !.done = TRUE,
                          !.out = extractFieldsFromItems(pure.items)]
  /\ UNCHANGED <<folders, nextFolderId, templates, nextTemplateId,
                 del, post, rfr, mrg>>

ApplyClone ==
  /\ pure.kind = "clone" /\ ~pure.done
  /\ pure' = [pure EXCEPT !.done = TRUE,
                          !.out = cloneItemsWithData(pure.items, pure.row)]
  /\ UNCHANGED <<folders, nextFolderId, templates, nextTemplateId,
                 del, post, rfr, mrg>>

ApplyName ==
  /\ pure.kind = "name" /\ ~pure.done
  /\ pure' = [pure EXCEPT !.done = TRUE,
                          !.out = generatedName(pure.row, pure.fields,
                                                pure.templateName, pure.index)]
  /\ UNCHANGED <<folders, nextFolderId, templates, nextTemplateId,
                 del, post, rfr, mrg>>

\* ------------------------------------------- the helpers, stated by place
IsName(n) == n # <<>> /\ \A k \in 1..Len(n) : n[k] \in NameChars

\* the placeholder tokens of s: <<i, e>> when s[i..e-1] reads {{name}}
Occurrences(s) ==
  UNION { { <<i, e>> : e \in {e \in (i + 5)..(Len(s) + 1) :
                               /\ s[e - 2] = "}" /\ s[e - 1] = "}"
                               /\ IsName(SubSeq(s, i + 2, e - 3))} }
          : i \in {i \in 1..(Len(s) - 1) : s[i] = "{" /\ s[i + 1] = "{"} }

OccName(s, o) == SubSeq(s, o[1] + 2, o[2] - 3)

NamesIn(item) ==
  IF item.type = "TEXT"
  THEN {OccName(item.content, o) : o \in Occurrences(item.content)}
  ELSE {}

FirstItemOf(items, n) == Min({k \in 1..Len(items) : n \in NamesIn(items[k])})

FirstPlaceOf(item, n) ==
  Min({o[1] : o \in {q \in Occurrences(item.content) : OccName(item.content, q) = n}})

\* name n is first met before name m
MetBefore(items, n, m) ==
  LET kn == FirstItemOf(items, n)
      km == FirstItemOf(items, m)
  IN \/ kn < km
     \/ kn = km /\ FirstPlaceOf(items[kn], n) < FirstPlaceOf(items[km], m)

\* C7: extractFieldsFromItems returns one field per distinct placeholder name
\* found in the TEXT items (other items contribute nothing), in order of first
\* occurrence, with label equal to name and targetItemId the id of the first
\* item holding the name; no name is listed twice and an item list without
\* placeholders gives the empty list.
C7_FieldsAreFirstOccurrences ==
  (pure.kind = "extract" /\ pure.done) =>
    LET items == pure.items
        F == pure.out
        names == UNION {NamesIn(items[k]) : k \in 1..Len(items)}
    IN /\ {F[k].name : k \in 1..Len(F)} = names
       /\ Len(F) = Cardinality(names)
       /\ \A k \in 1..Len(F) :
            /\ F[k].label = F[k].name
            /\ F[k].targetItemId = items[FirstItemOf(items, F[k].name)].id
       /\ \A k, l \in 1..Len(F) :
            k < l => MetBefore(items, F[k].name, F[l].name)

\* two fields from a list in which the first name is repeated in a later item
C7_Witness ==
  /\ pure.kind = "extract" /\ pure.done
  /\ Len(pure.items) = 2 /\ Len(pure.out) = 2
  /\ pure.out[1].name \in NamesIn(pure.items[1]) \cap NamesIn(pure.items[2])

\* the row's string value for a name, the empty string when it has none
ValueFor(row, n) == IF n \in DOMAIN row THEN row[n] ELSE <<>>

\* what position i of s contributes, occ being the tokens of s: a token's first
\* place gives the value, its other places nothing, any other place its character
PieceAt(s, occ, row, i) ==
  IF \E o \in occ : o[1] = i
  THEN ValueFor(row, OccName(s, CHOOSE o \in occ : o[1] = i))
  ELSE IF \E o \in occ : o[1] < i /\ i < o[2] THEN <<>> ELSE <<s[i]>>

Substituted(s, row) ==
  LET occ == Occurrences(s)
  IN Concat([i \in 1..Len(s) |-> PieceAt(s, occ, row, i)])

\* for each character of Substituted(s, row): 0 when it comes from a row value,
\* else its place in s
Origins(s, row) ==
  LET occ == Occurrences(s)
  IN Concat([i \in 1..Len(s) |->
               LET piece == PieceAt(s, occ, row, i)
               IN IF \E o \in occ : o[1] = i
                  THEN [k \in 1..Len(piece) |-> 0]
                  ELSE [k \in 1..Len(piece) |-> i]])

\* token o of the output holds a character of a row value
FromRowValue(origins, o) == \E k \in o[1]..(o[2] - 1) : origins[k] = 0

\* token o of the output is source text that closed up around a replaced token
ClosedUp(origins, o) ==
  \E k \in o[1]..(o[2] - 2) : origins[k + 1] # origins[k] + 1

\* what both readings of the claim share: shape, order, the untouched items and
\* attributes, and every occurrence replaced
CloneShape(items, row, out) ==
  /\ Len(out) = Len(items)
  /\ \A k \in 1..Len(items) :
       /\ out[k].id = items[k].id /\ out[k].type = items[k].type
       /\ out[k].x = items[k].x /\ out[k].y = items[k].y
       /\ out[k].width = items[k].width /\ out[k].height = items[k].height
       /\ items[k].type # "TEXT" => out[k] = items[k]
       /\ items[k].type = "TEXT" =>
            out[k].content = Substituted(items[k].content, row)

\* C8 as stated: no placeholder token is left in a cloned TEXT item unless it
\* came from a row value.
C8_NoTokenRemains ==
  (pure.kind = "clone" /\ pure.done) =>
    /\ CloneShape(pure.items, pure.row, pure.out)
    /\ \A k \in 1..Len(pure.items) :
         pure.items[k].type = "TEXT" =>
           \A o \in Occurrences(pure.out[k].content) :
             FromRowValue(Origins(pure.items[k].content, pure.row), o)

\* C8 as amended: cloneItemsWithData keeps length, order, every non-TEXT item and
\* every non-content attribute, and replaces each placeholder occurrence of a
\* TEXT item by the row's value or by the empty string, in one pass; a token
\* left in the output holds characters of a row value or is source text that
\* closed up around a replaced occurrence.
C8_OnePassSubstitution ==
  (pure.kind = "clone" /\ pure.done) =>
    /\ CloneShape(pure.items, pure.row, pure.out)
    /\ \A k \in 1..Len(pure.items) :
         pure.items[k].type = "TEXT" =>
           LET origins == Origins(pure.items[k].content, pure.row)
           IN \A o \in Occurrences(pure.out[k].content) :
                FromRowValue(origins, o) \/ ClosedUp(origins, o)

\* a TEXT item with a valued and an unvalued placeholder beside a non-TEXT item
\* whose content holds a token
C8_Witness ==
  /\ pure.kind = "clone" /\ pure.done
  /\ Len(pure.items) = 2
  /\ pure.items[1].type = "TEXT" /\ pure.items[2].type # "TEXT"
  /\ Occurrences(pure.items[2].content) # {}
  /\ \E o, q \in Occurrences(pure.items[1].content) :
       /\ OccName(pure.items[1].content, o) \in DOMAIN pure.row
       /\ OccName(pure.items[1].content, q) \notin DOMAIN pure.row
  /\ pure.out[1].content = <<"v">>

\* the first of the three name candidates that is a string with something left
\* after trimming
NameCandidates(row, fields) ==
  <<RowGet(row, Str___name), RowGet(row, Str_name),
    IF fields # <<>> THEN RowGet(row, fields[1].name) ELSE Undefined>>

Usable(c) == c # Undefined /\ trim(c) # <<>>

\* C3: the output name is the trimmed first candidate among row.__name, row.name
\* and the row's value for the first effective field that is non-empty after
\* trimming, and "<template name> #<row number>" only when there is none.
C3_FirstUsableCandidateNamesTheRow ==
  (pure.kind = "name" /\ pure.done) =>
    LET cands == NameCandidates(pure.row, pure.fields)
        usable == {k \in 1..3 : Usable(cands[k])}
    IN pure.out = IF usable # {}
                  THEN trim(cands[Min(usable)])
                  ELSE pure.templateName \o <<" ", "#">>
                         \o NumberToString(pure.index + 1)

\* ------------------------------------------------------- specifications
\* the helpers on every input of the bounded sets
PureInit == StoreInit /\ pure \in PureInputs

PureNext == ApplyExtract \/ ApplyClone \/ ApplyName

PureSpec == PureInit /\ [][PureNext]_vars

\* ------------------------------------------------- the clients' requests
AllEnded == Ended(del) /\ Ended(post) /\ Ended(rfr) /\ Ended(mrg)

AllIdle == del = IdleDel /\ post = IdlePost /\ rfr = IdleRfr /\ mrg = IdleMrg

\* the responses have been read: the request records are dropped
Acknowledge ==
  /\ AllEnded /\ ~AllIdle
  /\ del' = IdleDel /\ post' = IdlePost /\ rfr' = IdleRfr /\ mrg' = IdleMrg
  /\ UNCHANGED <<folders, nextFolderId, templates, nextTemplateId, pure>>

TextItem(pos, content) == MkItem(pos, "TEXT", content)

Text_a == <<"{", "{", "a", "}", "}">>
Text_ba == <<"{", "{", "b", "}", "}", "{", "{", "a", "}", "}">>
Text_plain == <<"{", "a">>

DraftItems == <<TextItem(1, Text_a)>>

Payload(name, folderId, items) ==
  [name |-> name, folderId |-> folderId, width |-> 10, height |-> 5,
   items |-> items]

ParentIds == {Null} \cup FolderIds

ServerInit == StoreInit /\ pure = NoPure

\* where the client saves its drafts: at the top level or in the first folders
DraftFolders == {Null} \cup {f \in FolderIds : f <= 2}

\* a client builds a store, one request at a time (folders under any parent id,
\* drafts saved at the top level or into a folder), and then deletes a folder
SeqFolderNext ==
  \/ AllIdle /\ \E parentId \in ParentIds : CreateFolder(parentId)
  \/ AllIdle /\ \E id \in FolderIds : DeleteFolderStart(id)
  \/ DeleteFolderBfs
  \/ DeleteFolderDocs
  \/ DeleteFolderFindTemplates
  \/ DeleteFolderTemplates
  \/ DeleteFolderFail
  \/ AllIdle /\ \E folderId \in DraftFolders :
       PostTemplateFind(Payload(<<"B">>, folderId, DraftItems))
  \/ PostTemplateSave
  \/ PostTemplateCreate
  \/ del = IdleDel /\ Acknowledge

SeqFolderSpec == ServerInit /\ [][SeqFolderNext]_vars

\* the same client with its drafts in folder 1 only
TraversalNext ==
  \/ AllIdle /\ \E parentId \in ParentIds : CreateFolder(parentId)
  \/ AllIdle /\ \E id \in FolderIds : DeleteFolderStart(id)
  \/ DeleteFolderBfs
  \/ DeleteFolderDocs
  \/ DeleteFolderFindTemplates
  \/ DeleteFolderTemplates
  \/ DeleteFolderFail
  \/ AllIdle /\ PostTemplateFind(Payload(<<"B">>, 1, DraftItems))
  \/ PostTemplateSave
  \/ PostTemplateCreate
  \/ del = IdleDel /\ Acknowledge

\* the event loop resumes the handler after every storage call that answers; a
\* storage call need not fail
FairTraversalSpec ==
  /\ ServerInit /\ [][TraversalNext]_vars
  /\ WF_vars(DeleteFolderBfs)
  /\ WF_vars(DeleteFolderDocs)
  /\ WF_vars(DeleteFolderFindTemplates)
  /\ WF_vars(DeleteFolderTemplates)

\* the same requests interleaved at the storage calls, one folder delete
FolderNext ==
  \/ \E parentId \in ParentIds : CreateFolder(parentId)
  \/ \E id \in FolderIds : del = IdleDel /\ DeleteFolderStart(id)
  \/ DeleteFolderBfs
  \/ DeleteFolderDocs
  \/ DeleteFolderFindTemplates
  \/ DeleteFolderTemplates
  \/ DeleteFolderFail
  \/ \E folderId \in ParentIds :
       PostTemplateFind(Payload(<<"B">>, folderId, DraftItems))
  \/ PostTemplateSave
  \/ PostTemplateCreate

FolderSpec == ServerInit /\ [][FolderNext]_vars

\* ------------------------------------------------------------ authoring
AuthorItems == { <<TextItem(1, Text_a)>>, <<TextItem(1, Text_ba)>>,
                 <<TextItem(1, Text_plain)>> }

AuthorPayloads ==
  {Payload(<<"B">>, folderId, items) : folderId \in {Null, 1}, items \in AuthorItems}

\* a client that saves, updates, refreshes and deletes templates, one request
\* at a time
AuthoringNext ==
  \/ AllIdle /\ \E payload \in AuthorPayloads : PostTemplateFind(payload)
  \/ PostTemplateSave
  \/ PostTemplateCreate
  \/ AllIdle /\ \E id \in TemplateIds, payload \in AuthorPayloads :
       PutTemplate(id, payload)
  \/ AllIdle /\ \E id \in TemplateIds : DeleteTemplate(id)
  \/ AllIdle /\ \E id \in TemplateIds : RefreshFind(id)
  \/ RefreshSave
  \/ Acknowledge

AuthoringSpec == ServerInit /\ [][AuthoringNext]_vars

\* ---------------------------------------------------------------- merge
MergeRows == { NoRow, [key \in {Str_a} |-> <<"v">>] }

RowLists == UNION { [1..n -> MergeRows] : n \in 1..MaxRows }

\* the store holds no template that a merge has produced
NoneFilled == \A t \in DOMAIN templates : templates[t].role = "draft"

\* a client that saves drafts, merges rows into one of them and deletes
\* folders, one request at a time.  No folder is ever created: every folder id
\* is unknown.
Next ==
  \/ AllIdle /\ \E folderId \in {Null, 1} :
       PostTemplateFind(Payload(<<"B">>, folderId, DraftItems))
  \/ PostTemplateSave
  \/ PostTemplateCreate
  \/ AllIdle /\ NoneFilled
       /\ \E templateId \in 1..MaxTemplates, folderId \in {Null, 1},
             rows \in RowLists :
            MergeFind(templateId, folderId, rows)
  \/ MergeCreate
  \/ MergeFail
  \/ AllIdle /\ \E id \in {1, 2} : DeleteFolderStart(id)
  \/ DeleteFolderBfs
  \/ DeleteFolderDocs
  \/ DeleteFolderFindTemplates
  \/ DeleteFolderTemplates
  \/ DeleteFolderFail
  \/ Acknowledge

Spec == ServerInit /\ [][Next]_vars

\* --------------------------------------------------- the folder claims
\* the root and every folder whose parent chain in fs reaches it
RECURSIVE Grow(_, _)
Grow(fs, S) ==
  LET T == S \cup {f \in DOMAIN fs : fs[f].parentId \in S}
  IN IF T = S THEN S ELSE Grow(fs, T)

Closure(fs, root) == Grow(fs, {root})

\* some folder under root is its own descendant
CycleFrom(fs, root) ==
  \E c \in Closure(fs, root) \cap DOMAIN fs : fs[c].parentId \in Closure(fs, c)

\* C4: over an acyclic parent relation findDescendantFolderIds(root) returns the
\* root first, every id once, and as a set the root with every folder reachable
\* from it; for a folder without children it returns the root alone.
C4_TraversalReturnsClosure ==
  (del.pc = "deleteFolders" /\ ~CycleFrom(folders, del.id)) =>
    /\ del.ids[1] = del.id
    /\ \A k, l \in 1..Len(del.ids) : k # l => del.ids[k] # del.ids[l]
    /\ Range(del.ids) = Closure(folders, del.id)
    /\ (\A f \in DOMAIN folders : folders[f].parentId # del.id) =>
         del.ids = <<del.id>>

\* a stored root with a child and a grandchild
C4_Witness ==
  /\ del.pc = "deleteFolders"
  /\ del.id \in DOMAIN folders
  /\ Len(del.ids) = 3
  /\ \E f \in Range(del.ids) : f # del.id /\ folders[f].parentId \notin {del.id, Null}

\* the delete request answers 200
Responds == del.pc # "done" /\ del'.pc = "done"

\* C1: a folder delete that runs alone removes exactly the root and its
\* descendants and exactly the templates whose folderId is one of them, leaves
\* every other folder and template as it was, and reports what it removed.
C1_DeleteRemovesSubtree ==
  /\ [][/\ (del.pc = "deleteFolders" /\ del'.pc = "findTemplates") =>
             /\ Range(del.ids) = Closure(folders, del.id)
             /\ folders' = Restrict(folders,
                                    DOMAIN folders \ Closure(folders, del.id))
        /\ Responds =>
             /\ templates' = Restrict(templates,
                               {t \in DOMAIN templates :
                                  templates[t].folderId \notin Range(del.ids)})
             /\ Range(del'.templateIds) = DOMAIN templates \ DOMAIN templates'
             /\ del'.ids = del.ids /\ folders' = folders
             /\ DOMAIN folders \cap Range(del.ids) = {}]_vars
  /\ [](del.pc = "done" =>
          /\ DOMAIN folders \cap Range(del.ids) = {}
          /\ \A t \in DOMAIN templates :
               templates[t].folderId \notin Range(del.ids))

\* a subtree goes with its template; a folder and a template outside stay
C1_Witness ==
  /\ del.pc = "done"
  /\ Len(del.ids) >= 2
  /\ del.templateIds # <<>>
  /\ DOMAIN folders # {}
  /\ DOMAIN templates # {}

\* C9 as stated: at the moment a folder delete answers, whatever was interleaved,
\* no stored folder has a parent chain to the root and no stored template lies
\* in a folder the delete removed.
C9_NothingLeftUnderRoot ==
  [][Responds =>
       /\ \A f \in DOMAIN folders' \ {del'.id} :
            folders'[f].parentId \notin Closure(folders', del'.id)
       /\ \A t \in DOMAIN templates' :
            templates'[t].folderId \notin Range(del'.ids)]_vars

\* the traversal is stopped by the cap on its id list
CapReached ==
  /\ del.pc = "bfs"
  /\ Len(del.ids) + Len(ChildrenOf(Head(del.queue))) > MaxIds

\* C10: the traversal has no visited set.  Over an acyclic parent relation it
\* ends and the delete request answers; with a cycle under the root the queue
\* never empties, the id list grows past every bound, nothing is deleted and
\* the request never gets to answer (a storage error ends it with 500).
C10_TraversalEndsIffAcyclic ==
  /\ (del.pc = "bfs" /\ ~CycleFrom(folders, del.id)) ~> Ended(del)
  /\ [][(del.pc = "bfs" /\ CycleFrom(folders, del.id)) =>
          /\ del'.pc \in {"bfs", "failed"}
          /\ folders' = folders /\ templates' = templates
          /\ del'.pc = "bfs" =>
               /\ del'.queue # <<>>
               /\ Len(del'.ids) >= Len(del.ids)
               /\ CycleFrom(folders', del'.id)]_vars
  /\ (del.pc = "bfs" /\ CycleFrom(folders, del.id)) ~>
       (CapReached \/ del.pc = "failed")

\* a traversal over a cycle of two folders has filled its id list
C10_Witness ==
  /\ CapReached
  /\ CycleFrom(folders, del.id)
  /\ folders[del.id].parentId # del.id

\* --------------------------------------------------- the template claims
\* C6 as stated: the field list of every stored template is the extraction of
\* its stored items, after every sequence of saves, updates and refreshes.
C6_FieldsAreExtraction ==
  \A t \in DOMAIN templates :
    templates[t].fields = extractFieldsFromItems(templates[t].items)

\* the refresh request writes its field list
Refreshes(t) == rfr.pc = "save" /\ rfr'.pc = "done" /\ t = rfr.id

\* C6, amended: a template that is created or refreshed gets the extraction
\* of its items as field list; a save over an existing template (the upsert of
\* POST, PUT) gets the extraction when it is not empty and keeps the field list
\* stored before when the new items hold no placeholder.
C6_FieldsAreExtractionUnlessEmpty ==
  /\ [][\A t \in DOMAIN templates' :
          LET e == extractFieldsFromItems(templates'[t].items)
          IN IF t \notin DOMAIN templates \/ Refreshes(t)
             THEN templates'[t].fields = e
             ELSE templates'[t] # templates[t] =>
                    templates'[t].fields =
                      IF e # <<>> THEN e ELSE templates[t].fields]_vars
  /\ [](\A t \in DOMAIN templates :
          LET e == extractFieldsFromItems(templates[t].items)
          IN e = <<>> \/ templates[t].fields = e)

\* an upsert has answered 200 and its template, saved with items that hold no
\* placeholder, keeps a field
C6_Witness ==
  /\ post.pc = "done" /\ post.status = 200
  /\ extractFieldsFromItems(templates[post.id].items) = <<>>
  /\ templates[post.id].fields # <<>>

\* the merge request takes a step of its loop
MergeSteps == mrg.pc = "loop" /\ mrg' # mrg

\* C2: the templates a merge request has created are at every moment those
\* of the rows 1..index, one per row, in row order.  A creation that fails ends
\* the request with 500, creates nothing more and rolls nothing back; without
\* a failure the request ends with 201 and one template for each row.
C2_MergeCreatesRowPrefix ==
  /\ [](mrg.pc \in {"loop", "failed"} \/ (mrg.pc = "done" /\ mrg.status = 201) =>
          /\ Len(mrg.createdTemplates) = mrg.index
          /\ mrg.index <= Len(mrg.rows)
          /\ \A k \in 1..mrg.index :
               LET created == mrg.createdTemplates[k]
               IN /\ created.name =
                       generatedName(mrg.rows[k], mrg.effectiveFields,
                                     mrg.template.name, k - 1)
                  /\ created.items =
                       cloneItemsWithData(mrg.template.items, mrg.rows[k])
                  /\ created.id \in DOMAIN templates
                  /\ mapTemplate(created.id, templates[created.id]) = created
                  /\ \A l \in 1..(k - 1) : mrg.createdTemplates[l].id < created.id
          /\ mrg.pc = "done" => mrg.index = Len(mrg.rows)
          /\ mrg.pc = "failed" => mrg.status = 500 /\ mrg.index < Len(mrg.rows))
  /\ [][MergeSteps =>
          /\ \A t \in DOMAIN templates :
               t \in DOMAIN templates' /\ templates'[t] = templates[t]
          /\ IF mrg'.pc = "failed"
             THEN /\ templates' = templates
                  /\ mrg'.createdTemplates = mrg.createdTemplates
             ELSE /\ mrg'.index = mrg.index + 1
                  /\ Cardinality(DOMAIN templates' \ DOMAIN templates) = 1]_vars
  /\ [][mrg.pc = "failed" =>
          mrg'.pc \in {"failed", "idle"} /\ templates' = templates]_vars

\* the creation for the second of two rows has failed; the first row's
\* template is stored
C2_Witness ==
  /\ mrg.pc = "failed"
  /\ Len(mrg.rows) = 2
  /\ mrg.index = 1
  /\ mrg.rows[1] # mrg.rows[2]
  /\ mrg.createdTemplates[1].id \in DOMAIN templates

\* C5 as stated: a request that names an unknown template or folder ends as
\* NotFound and changes nothing: the merge creates no template; the folder
\* delete (no folder is stored, so the id it names is unknown) answers 404
\* and has deleted no template.
C5_UnknownIdIsNotFound ==
  /\ (mrg.pc # "idle" /\ mrg.template = <<>>) =>
       /\ mrg.pc = "done" /\ mrg.status = 404
       /\ mrg.createdTemplates = <<>>
  /\ (del.pc = "done" /\ folders = <<>>) =>
       /\ del.status = 404
       /\ del.templateIds = <<>>

====
